---- MODULE Spec2Model ----
(***************************************************************************)
(* Model of the AWG simulator (React + react-three-fiber).                 *)
(*                                                                         *)
(* The repository holds several near-identical variants of the same        *)
(* component tree.  Three of them are modelled, selected by `variant`:     *)
(*   "model" : AwgSimulator/AwgModel   (src/src/AwgSimulator.jsx 1-625)    *)
(*   "scene" : AwgSimulator/AwgScene   (src/src/AwgSimulator.jsx 722-1485) *)
(*   "glb"   : AwgSimulator/AwgGLB     (src/unnamed/part_000 1-292)        *)
(* The stand-alone HTML simulator (src/src/src/AwgSimulator.jsx) is        *)
(* modelled beside them, on variables of its own.                          *)
(*                                                                         *)
(* Numbers.  Control inputs are in hundredths (Leva step 0.01), time in    *)
(* milliseconds, glow and fluid levels in millionths.  Particle            *)
(* coordinates are in units of 2^-29; a store into the Float32Array that   *)
(* holds them rounds to 24 significant bits (F32).                         *)
(***************************************************************************)
EXTENDS Integers, Sequences, FiniteSets, TLC

VARIABLES
    variant,          \* which variant of the component tree is mounted
    mounted,          \* FALSE once a render has thrown and React unmounted the tree
    stepIndex,        \* useState: current stage ordinal
    autoPlay,         \* useState: auto-advance flag
    intervals,        \* ids of the live setInterval timers
    effectId,         \* id captured by the mounted effect's cleanup, 0 if none
    nodes,            \* scene objects the frame callback found (its refs / GLB nodes)
    fluidFlow,        \* Leva control, hundredths
    tempCondensation, \* Leva control, hundredths
    elapsed,          \* state.clock elapsed time, ms
    frame,            \* number of frames rendered so far
    positions,        \* per field, per particle: the Float32Array position triple
    phases,           \* per field, per particle: swirl phase, milliradians
    direction,        \* per field: the direction prop of its <Particles>
    fanAngle,         \* fan rotation.z, units of 1e-7 rad
    coilGlow,         \* condenser emissiveIntensity, units of 1e-4
    uvGlow,           \* UV emissiveIntensity, units of 1e-4
    dirtyLevel,       \* pre-filter tank scale.y, millionths
    cleanLevel,       \* clean tank scale.y, millionths
    lvl1,             \* HTML simulator: first tank level, units of 1/7500 %
    lvl2,             \* HTML simulator: second tank level, units of 1/10000 %
    flowCtrl,         \* HTML simulator: #flow-ctrl slider value
    tempCtrl,         \* HTML simulator: #temp-ctrl slider value
    lastOp            \* history: the operation that produced this state

stageVars == <<stepIndex, autoPlay, intervals, effectId>>
inputVars == <<fluidFlow, tempCondensation>>
frameVars == <<elapsed, frame, fanAngle, coilGlow, uvGlow, dirtyLevel, cleanLevel>>
htmlVars == <<lvl1, lvl2, flowCtrl, tempCtrl>>

vars == <<variant, mounted, stepIndex, autoPlay, intervals, effectId, nodes,
          fluidFlow, tempCondensation, elapsed, frame, positions, phases, direction,
          fanAngle, coilGlow, uvGlow, dirtyLevel, cleanLevel,
          lvl1, lvl2, flowCtrl, tempCtrl, lastOp>>

----------------------------------------------------------------------------
(* Bounds *)

MaxIntervalIds == 2      \* interval ids that setInterval may hand out
JumpSlack == 1           \* how far outside the stage range a jump argument may lie
MaxFrames == 1           \* frames rendered in a behaviour of Spec
MaxRunFrames == 3        \* frames rendered in a behaviour of SpecRun
MaxMixFrames == 2        \* frames rendered in a behaviour of SpecMix
Count == 1               \* particles per field (count = 900 / 600 in the source)

----------------------------------------------------------------------------
(* StageSequence *)

Variants == {"model", "scene", "glb"}

STEPS == <<"air", "condensation", "filtration", "uv_tank", "dispense", "mineral">>

StageCount == Len(STEPS)

StageRange == 0 .. (StageCount - 1)

\* STEPS[stepIndex].key ; JavaScript arrays are 0-based
StepKey(i) == STEPS[i + 1]

Max2(a, b) == IF a >= b THEN a ELSE b
Min2(a, b) == IF a <= b THEN a ELSE b

\* useState initial values
InitialStepIndex(v) == IF v = "model" THEN 2 ELSE 0
InitialAutoPlay(v) == v = "model"

----------------------------------------------------------------------------
(* StageController: the state updaters handed to setStepIndex *)

PrevNoClamp(i) == i - 1
\* (i) => Math.max(0, i - 1)
PrevStep(i) == Max2(0, i - 1)

NextWraps(i) == (i + 1) % StageCount
\* (i) => Math.min(STEPS.length - 1, i + 1)
NextStep(i) == Min2(StageCount - 1, i + 1)

AutoStepClamps(i) == Min2(StageCount - 1, i + 1)
AutoStepCaptured(i) == (InitialStepIndex(variant) + 1) % StageCount
\* (i) => (i + 1) % STEPS.length
AutoStep(i) == (i + 1) % StageCount

Op(name, arg) == [op |-> name, arg |-> arg, result |-> "ok"]

\* const step = STEPS[stepIndex].key throws a TypeError when STEPS[stepIndex]
\* is undefined; with no error boundary React then unmounts the whole tree.
RenderThrows(i) == i \notin StageRange

LeakInterval(live, id) == live
\* return () => clearInterval(id)
ClearInterval(live, id) == live \ {id}

RunAutoPlayEffectNoCleanup(enabled) ==
    LET id == CHOOSE n \in 1 .. MaxIntervalIds : n \notin intervals
    IN  IF enabled
        THEN /\ intervals' = intervals \cup {id}
             /\ effectId' = id
        ELSE /\ intervals' = intervals
             /\ effectId' = 0
\* useEffect(() => { if (!autoPlay) return; const id = setInterval(...);
\*                   return () => clearInterval(id); }, [autoPlay])
\* The cleanup of the previous run, then the body of the new run.
RunAutoPlayEffect(enabled) ==
    LET cleaned == ClearInterval(intervals, effectId)
        id == CHOOSE n \in 1 .. MaxIntervalIds : n \notin cleaned /\
                 \A other \in 1 .. MaxIntervalIds : other \notin cleaned => n <= other
    IN  IF enabled
        THEN /\ intervals' = cleaned \cup {id}
             /\ effectId' = id
        ELSE /\ intervals' = cleaned
             /\ effectId' = 0

----------------------------------------------------------------------------
(* Arithmetic *)

Abs(x) == IF x < 0 THEN -x ELSE x
Sign(x) == IF x < 0 THEN -1 ELSE 1

\* x * num / den rounded to the nearest integer, for |x| * num inside the
\* integer range
MulDiv(x, num, den) == Sign(x) * ((Abs(x) * num + den \div 2) \div den)

\* Spacing of the float32 values around a coordinate of magnitude a:
\* 2^(e-23) for 2^e <= a < 2^(e+1).
F32Spacing(a) ==
    IF a >= 536870912 THEN 64
    ELSE IF a >= 268435456 THEN 32
    ELSE IF a >= 134217728 THEN 16
    ELSE IF a >= 67108864 THEN 8
    ELSE IF a >= 33554432 THEN 4
    ELSE IF a >= 16777216 THEN 2
    ELSE 1

\* A store into a Float32Array element: the double is rounded to the nearest
\* float32.
F32(x) ==
    LET q == F32Spacing(Abs(x))
    IN  Sign(x) * (q * ((Abs(x) + q \div 2) \div q))

\* const clamp01 = (v) => Math.max(0, Math.min(1, v)), on hundredths
clamp01(v) == Max2(0, Min2(100, v))

\* Math.sin on milliradians, result in thousandths (Bhaskara's rational
\* approximation on each half period).
HalfTurn == 3142
SinHalf(x) ==
    LET pq == x * (HalfTurn - x)
    IN  (16 * pq) \div ((5 * HalfTurn * HalfTurn - 4 * pq) \div 1000)
Sin1000(a) ==
    LET r == a % (2 * HalfTurn)
    IN  IF r <= HalfTurn THEN SinHalf(r) ELSE -SinHalf(r - HalfTurn)
\* Math.cos
Cos1000(a) == Sin1000(a + HalfTurn \div 2)

Pow001Linear(delta) == 1000000 - 1000 * delta
\* Math.pow(0.001, delta) in millionths, delta in ms
Pow001(delta) ==
    CASE delta = 16 -> 895365
      [] delta = 8 -> 946237
      [] delta = 0 -> 1000000
      [] delta = 0 - 16 -> 1116863
      [] delta = 250 -> 177828
      [] delta = 500 -> 31623
      [] delta = 1000 -> 1000

----------------------------------------------------------------------------
(* Per-variant configuration of the particle fields *)

AllNodes == {"Fan", "Coil", "UV", "Tanks"}

\* the <Particles> elements of the variant, one per owning stage key
FieldKeys(v) ==
    IF v = "glb" THEN {"air", "condensation", "dispense"}
    ELSE {"air", "condensation", "filtration", "uv_tank", "dispense", "mineral"}

\* box prop, coordinates in units of 2^-29 (each extent is twice the grid
\* point next to half the source value that rounds to float32 the same way)
Box(v, k) ==
    IF v = "model" THEN
        CASE k = "air"          -> <<751619276, 295279002, 295279002>>   \* [1.4, 0.55, 0.55]
          [] k = "condensation" -> <<375809638, 187904820, 187904820>>   \* [0.7, 0.35, 0.35]
          [] k = "filtration"   -> <<966367642, 134217728, 134217728>>   \* [1.8, 0.25, 0.25]
          [] k = "uv_tank"      -> <<536870912, 134217728, 134217728>>   \* [1.0, 0.25, 0.25]
          [] k = "dispense"     -> <<161061274, 295279002, 161061274>>   \* [0.30, 0.55, 0.30]
          [] k = "mineral"      -> <<483183820, 134217728, 134217728>>   \* [0.9, 0.25, 0.25]
    ELSE IF v = "scene" THEN
        CASE k = "air"          -> <<644245094, 295279002, 295279002>>   \* [1.2, 0.55, 0.55]
          [] k = "condensation" -> <<429496730, 241591910, 241591910>>   \* [0.8, 0.45, 0.45]
          [] k = "filtration"   -> <<1234803098, 118111602, 118111602>>  \* [2.3, 0.22, 0.22]
          [] k = "uv_tank"      -> <<697932186, 134217728, 134217728>>   \* [1.3, 0.25, 0.25]
          [] k = "dispense"     -> <<187904820, 402653184, 187904820>>   \* [0.35, 0.75, 0.35]
          [] k = "mineral"      -> <<644245094, 134217728, 134217728>>   \* [1.2, 0.25, 0.25]
    ELSE
        CASE k = "dispense"     -> <<107374182, 268435456, 107374182>>   \* [0.2, 0.5, 0.2]
          [] OTHER              -> <<322122548, 161061274, 161061274>>   \* default [0.6, 0.3, 0.3]

\* direction prop
Direction(v, k) ==
    IF k \in {"condensation", "dispense"} THEN <<0, -1, 0>> ELSE <<1, 0, 0>>

\* Math.sqrt on a natural number, rounded down
RECURSIVE SqrtBetween(_, _, _)
SqrtBetween(n, lo, hi) ==
    IF hi - lo <= 1 THEN lo
    ELSE LET mid == (lo + hi) \div 2
         IN  IF mid * mid <= n THEN SqrtBetween(n, mid, hi) ELSE SqrtBetween(n, lo, mid)

\* Vector3.length() of a vector of small integers, thousandths
Length1000(d) == SqrtBetween((d[1] * d[1] + d[2] * d[2] + d[3] * d[3]) * 1000000, 0, 46340)

\* Vector3.normalize() is divideScalar(length() || 1): without the default
\* the zero vector stays the zero vector
NormalizeNoDefault(d) ==
    IF Length1000(d) = 0 THEN <<0, 0, 0>>
    ELSE [c \in 1 .. 3 |-> MulDiv(d[c] * 1000, 1000, Length1000(d))]
\* const dir: d = new Vector3(...direction); if (d.length() === 0) d.set(1,0,0);
\* d.normalize()   (components of the unit vector in thousandths)
Normalize(d) ==
    IF Length1000(d) = 0 THEN <<1000, 0, 0>>
    ELSE [c \in 1 .. 3 |-> MulDiv(d[c] * 1000, 1000, Length1000(d))]

\* swirl prop, hundredths
Swirl(v, k) ==
    IF v = "model" THEN
        CASE k = "air" -> 60 [] k = "condensation" -> 25 [] k = "filtration" -> 15
          [] k = "uv_tank" -> 12 [] k = "dispense" -> 0 [] k = "mineral" -> 20
    ELSE IF v = "scene" THEN
        CASE k = "air" -> 60 [] k = "condensation" -> 25 [] k = "filtration" -> 18
          [] k = "uv_tank" -> 12 [] k = "dispense" -> 0 [] k = "mineral" -> 22
    ELSE 0

\* const waterSpeed = 0.15 + clamp01(fluidFlow) * 1.0, units of 1e-4
WaterSpeed(flow) == 1500 + clamp01(flow) * 100

\* speed prop, units of 1e-4, from the controls in hundredths
Speed(v, k, flow, cond) ==
    IF v = "model" THEN
        CASE k = "air"          -> 2000 + clamp01(flow) * 75
          [] k = "condensation" -> 800 + clamp01(cond) * 45
          [] k = "filtration"   -> WaterSpeed(flow)
          [] k = "uv_tank"      -> 1500 + (WaterSpeed(flow) * 35) \div 100
          [] k = "dispense"     -> 2500 + (WaterSpeed(flow) * 35) \div 100
          [] k = "mineral"      -> 800 + (WaterSpeed(flow) * 18) \div 100
    ELSE IF v = "scene" THEN
        CASE k = "air"          -> 2200 + clamp01(flow) * 75
          [] k = "condensation" -> 1000 + clamp01(cond) * 50
          [] k = "filtration"   -> WaterSpeed(flow)
          [] k = "uv_tank"      -> 1500 + (WaterSpeed(flow) * 35) \div 100
          [] k = "dispense"     -> 2500 + (WaterSpeed(flow) * 35) \div 100
          [] k = "mineral"      -> 1000 + (WaterSpeed(flow) * 22) \div 100
    ELSE
        CASE k = "air"          -> 2000 + flow * 70
          [] k = "condensation" -> 800 + cond * 40
          [] k = "dispense"     -> 2500 + flow * 25

ActiveAlways(k, step) == TRUE
ActiveStale(k, step) == k = "air"
\* active prop: active={step === "<key>"}
Active(k, step) == step = k

----------------------------------------------------------------------------
(* ParticleField *)

\* Math.random() as a seedable source: each seed is a cycle of draws, in
\* 1024ths.  No draw is exactly 0.
RandomTable == << <<1016, 8, 512, 256>>,
                  <<512, 1016, 8, 768>> >>

Seeds == DOMAIN RandomTable

Rand(seed, n) == RandomTable[seed][((n - 1) % Len(RandomTable[seed])) + 1]

\* arr[i * 3 + c] = (Math.random() - 0.5) * box[c]
InitialPosition(seed, i, box) ==
    [c \in 1 .. 3 |-> F32((box[c] \div 1024) * (Rand(seed, (i - 1) * 3 + c) - 512))]

\* const positions = useMemo(() => {...}, [count, box]) for every field.
\* box is a fresh array on every render, so each render recomputes it, and the
\* <bufferAttribute args={[positions, 3]}> is rebuilt around the new array.
GeneratePositions(v, seed) ==
    [k \in FieldKeys(v) |-> [i \in 1 .. Count |-> InitialPosition(seed, i, Box(v, k))]]

\* arr[i] = Math.random() * Math.PI * 2, milliradians
GeneratePhases(v, seed) ==
    [k \in FieldKeys(v) |->
        [i \in 1 .. Count |-> (Rand(seed, i + 3) * 2 * HalfTurn) \div 1024]]

\* speed * delta in coordinate units: speed in 1e-4, delta in ms
Displacement(speed, delta) ==
    LET x == speed * delta
    IN  (x \div 1000) * 53687 + ((x % 1000) * 53687) \div 1000

\* dir.x * speed * delta: the displacement d scaled by a component u of the
\* unit direction, thousandths
Along(d, u) == (d \div 1000) * u + ((d % 1000) * u) \div 1000

\* Math.sin(p) * swirl * 0.02 in coordinate units: s in thousandths, swirl in
\* hundredths
SwirlOffset(s, swirl) == MulDiv(s * swirl, 10737, 100)

\* if (pos[ix] > halfX) pos[ix] = -halfX;
\* if (pos[ix] < -halfX) pos[ix] = halfX;
Wrap(x, half) ==
    LET a == IF x > half THEN F32(-half) ELSE x
    IN  IF a < -half THEN F32(half) ELSE a

\* the coordinates of one particle after advection and swirl, before wrap
Advected(p, phase, dir, speed, swirl, t, delta) ==
    LET d == Displacement(speed, delta)
        moved == [c \in 1 .. 3 |-> F32(p[c] + Along(d, dir[c]))]
        a == phase + (t * (800 + 12 * swirl)) \div 1000
    IN  IF swirl > 0
        THEN <<moved[1],
               F32(moved[2] + SwirlOffset(Sin1000(a), swirl)),
               F32(moved[3] + SwirlOffset(Cos1000(a), swirl))>>
        ELSE <<moved[1], moved[2], moved[3]>>

\* one iteration of the loop over the particles in the useFrame callback
AdvanceParticle(p, phase, box, dir, speed, swirl, t, delta) ==
    LET q == Advected(p, phase, dir, speed, swirl, t, delta)
    IN  [c \in 1 .. 3 |-> Wrap(q[c], box[c] \div 2)]

\* the useFrame callback of one <Particles>: if (!active) return; ...
AdvanceField(v, k, step, flow, cond, t, delta, pos) ==
    IF ~Active(k, step)
    THEN pos
    ELSE [i \in 1 .. Count |->
            AdvanceParticle(pos[i], phases[k][i], Box(v, k), Normalize(direction[k]),
                            Speed(v, k, flow, cond), Swirl(v, k), t, delta)]

----------------------------------------------------------------------------
(* StageVisualMap and SmoothedChannel *)

FanRateStops(v, step, flow) ==
    IF step = "air" THEN (120 + clamp01(flow) * 10) * 100 ELSE 0
FanRateNoStage(v, step, flow) == (120 + clamp01(flow) * 10) * 20
\* fan angular rate in 1e-4 rad/s: (base + flow * 10) * mult
FanRate(v, step, flow) ==
    IF v = "model" THEN (120 + clamp01(flow) * 10) * (IF step = "air" THEN 100 ELSE 20)
    ELSE IF v = "scene" THEN (150 + flow * 10) * (IF step = "air" THEN 100 ELSE 25)
    ELSE (120 + clamp01(flow) * 10) * (IF step = "air" THEN 100 ELSE 15)

CoilGlowFalling(v, step, cond) ==
    IF step = "condensation" THEN 10000 - clamp01(cond) * 85 ELSE 800
\* coilMat.emissiveIntensity, 1e-4
CoilGlow(v, step, cond) ==
    IF v = "model" THEN (IF step = "condensation" THEN 2500 + clamp01(cond) * 85 ELSE 800)
    ELSE IF v = "scene" THEN (IF step = "condensation" THEN 1800 + clamp01(cond) * 90 ELSE 600)
    ELSE (IF step = "condensation" THEN 2500 + 90 * clamp01(cond) ELSE 800)

\* uvMat.emissiveIntensity, 1e-4
UvGlow(v, step, flow) ==
    IF v = "model" THEN (IF step = "uv_tank" THEN 6000 + clamp01(flow) * 90 ELSE 1200)
    ELSE IF v = "scene" THEN (IF step = "uv_tank" THEN 7000 + clamp01(flow) * 90 ELSE 1200)
    ELSE (IF step = "uv_tank" THEN 7000 + 80 * clamp01(flow) ELSE 1200)

\* fluid level targets, millionths
DirtyTarget(v, step) ==
    IF v = "model" THEN (IF step \in {"filtration", "condensation"} THEN 150000 ELSE 220000)
    ELSE (IF step \in {"filtration", "condensation"} THEN 220000 ELSE 300000)

CleanTarget(v, step) ==
    IF v = "model" THEN (IF step \in {"uv_tank", "dispense", "mineral"} THEN 330000 ELSE 250000)
    ELSE (IF step \in {"uv_tank", "dispense", "mineral"} THEN 420000 ELSE 280000)

\* d * f / 1e6 rounded to nearest, d and f up to a million
Fraction(d, f) ==
    LET a == Abs(d) * (f \div 1000)
    IN  Sign(d) * ((a \div 1000) + ((a % 1000) * 1000 + Abs(d) * (f % 1000) + 500000) \div 1000000)

SmoothInstant(level, target, delta) == target
SmoothOvershoot(level, target, delta) ==
    level + Fraction(target - level, 1000000 + Pow001(delta))
\* scale.y += (target - scale.y) * (1 - Math.pow(0.001, delta))
Smooth(level, target, delta) ==
    level + Fraction(target - level, 1000000 - Pow001(delta))

----------------------------------------------------------------------------
(* Inputs *)

Deltas == {16, 500}              \* frame deltas, ms
\* a frame delta the clock can hand to the callbacks when two frames share a
\* timestamp (0) or when the frame loop is advanced by hand with an earlier
\* timestamp (negative)
NonPositiveDeltas == {0, 0 - 16}
\* positions of the FLUID FLOW and TEMP. CONDENSATION sliders, hundredths
InputChoices == {<<62, 58>>, <<100, 100>>}
\* fluidFlow / tempCondensation props outside the sliders' range
OutOfRangeInputs == {<<0 - 10, 0 - 10>>, <<150, 150>>}
\* slider positions over the whole range, ends included
RangeInputs == {<<0, 0>>, <<50, 40>>, <<100, 100>>}
\* direction props a <Particles> can be configured with
DirectionChoices == {<<0, 0, 0>>, <<0, 0 - 2, 0>>, <<1, 1, 0>>, <<3, 4, 0>>}

\* objects the variant's frame callbacks can reach: the refs of the built
\* scene, or the nodes getObjectByName found in the loaded GLB
NodeChoices(v) == IF v = "glb" THEN {{}, {"Fan", "Coil", "UV"}} ELSE {AllNodes}

InitialCoilGlow(v) == IF v = "model" THEN 800 ELSE IF v = "scene" THEN 600 ELSE 0
InitialUvGlow(v) == IF v = "model" THEN 1500 ELSE IF v = "scene" THEN 1200 ELSE 0
InitialDirtyLevel(v) == IF v = "model" THEN 220000 ELSE IF v = "scene" THEN 300000 ELSE 0
InitialCleanLevel(v) == IF v = "model" THEN 250000 ELSE IF v = "scene" THEN 280000 ELSE 0

----------------------------------------------------------------------------
(* Rendering *)

MemoPhasesRecomputed(v, seed, old) == GeneratePhases(v, seed)
\* const phases = useMemo(() => {...}, [count]): count is the same number on
\* every render, so a re-render returns the array of the first render
MemoPhases(v, seed, old) == old

\* A render of AwgSimulator re-renders the model and every <Particles>.
Render(seed) ==
    /\ positions' = GeneratePositions(variant, seed)
    /\ phases' = MemoPhases(variant, seed, phases)

\* setStepIndex(i) and the render it schedules.  React bails out when the
\* state is unchanged; a render that throws unmounts the tree, which runs the
\* effect cleanup.
SetStepIndex(i, seed) ==
    /\ stepIndex' = i
    /\ IF i = stepIndex
       THEN UNCHANGED <<mounted, intervals, effectId, positions, phases>>
       ELSE IF RenderThrows(i)
       THEN /\ mounted' = FALSE
            /\ intervals' = ClearInterval(intervals, effectId)
            /\ effectId' = 0
            /\ UNCHANGED <<positions, phases>>
       ELSE /\ Render(seed)
            /\ UNCHANGED <<mounted, intervals, effectId>>

----------------------------------------------------------------------------
InitBase ==
    /\ variant \in Variants
    /\ mounted = TRUE
    /\ stepIndex = InitialStepIndex(variant)
    /\ autoPlay = InitialAutoPlay(variant)
    /\ intervals = (IF InitialAutoPlay(variant) THEN {1} ELSE {})
    /\ effectId = (IF InitialAutoPlay(variant) THEN 1 ELSE 0)
    /\ nodes \in NodeChoices(variant)
    /\ fluidFlow = 62
    /\ tempCondensation = 58
    /\ elapsed = 0
    /\ frame = 0
    /\ \E seed \in Seeds :
          /\ positions = GeneratePositions(variant, seed)
          /\ phases = GeneratePhases(variant, seed)
    /\ fanAngle = 0
    /\ coilGlow = InitialCoilGlow(variant)
    /\ uvGlow = InitialUvGlow(variant)
    /\ dirtyLevel = InitialDirtyLevel(variant)
    /\ cleanLevel = InitialCleanLevel(variant)
    /\ lvl1 = 0
    /\ lvl2 = 0
    /\ flowCtrl = 50
    /\ tempCtrl = 12
    /\ lastOp = Op("init", 0)

\* the tree as the source configures it
Init ==
    /\ InitBase
    /\ direction = [k \in FieldKeys(variant) |-> Direction(variant, k)]

\* the tree with every <Particles> handed one of DirectionChoices
InitDir ==
    /\ InitBase
    /\ \E d \in DirectionChoices : direction = [k \in FieldKeys(variant) |-> d]

\* onClick={() => setStepIndex((i) => Math.max(0, i - 1))}
Previous ==
    /\ mounted
    /\ \E seed \in Seeds : SetStepIndex(PrevStep(stepIndex), seed)
    /\ lastOp' = Op("previous", 0)
    /\ UNCHANGED <<htmlVars, variant, direction, autoPlay, nodes, inputVars, frameVars>>

\* onClick={() => setStepIndex((i) => Math.min(STEPS.length - 1, i + 1))}
Next_ ==
    /\ mounted
    /\ \E seed \in Seeds : SetStepIndex(NextStep(stepIndex), seed)
    /\ lastOp' = Op("next", 0)
    /\ UNCHANGED <<htmlVars, variant, direction, autoPlay, nodes, inputVars, frameVars>>

\* onClick={() => setStepIndex(0)}
Reset ==
    /\ mounted
    /\ \E seed \in Seeds : SetStepIndex(0, seed)
    /\ lastOp' = Op("reset", 0)
    /\ UNCHANGED <<htmlVars, variant, direction, autoPlay, nodes, inputVars, frameVars>>

\* StepDots: onClick={() => setStepIndex(idx)}
JumpTo(idx) ==
    /\ mounted
    /\ \E seed \in Seeds : SetStepIndex(idx, seed)
    /\ lastOp' = Op("jump", idx)
    /\ UNCHANGED <<htmlVars, variant, direction, autoPlay, nodes, inputVars, frameVars>>

ToggleResets ==
    /\ mounted
    /\ \E n \in 1 .. MaxIntervalIds : n \notin intervals
    /\ autoPlay' = ~autoPlay
    /\ RunAutoPlayEffect(~autoPlay)
    /\ stepIndex' = 0
    /\ \E seed \in Seeds : Render(seed)
    /\ lastOp' = Op("toggle", 0)
    /\ UNCHANGED <<htmlVars, variant, direction, mounted, nodes, inputVars, frameVars>>
\* onClick={() => setAutoPlay((v) => !v)}, the render and the effect it triggers
ToggleAutoPlay ==
    /\ mounted
    /\ \E n \in 1 .. MaxIntervalIds : n \notin intervals
    /\ autoPlay' = ~autoPlay
    /\ RunAutoPlayEffect(~autoPlay)
    /\ \E seed \in Seeds : Render(seed)
    /\ lastOp' = Op("toggle", 0)
    /\ UNCHANGED <<htmlVars, variant, direction, mounted, stepIndex, nodes, inputVars, frameVars>>

\* the interval callback: setStepIndex((i) => (i + 1) % STEPS.length)
TimerFire(id) ==
    /\ mounted
    /\ id \in intervals
    /\ \E seed \in Seeds : SetStepIndex(AutoStep(stepIndex), seed)
    /\ lastOp' = Op("timer", 0)
    /\ UNCHANGED <<htmlVars, variant, direction, autoPlay, nodes, inputVars, frameVars>>

\* the Leva sliders: useControls returns the new values and re-renders
SetInputs(flow, cond) ==
    /\ mounted
    /\ <<flow, cond>> # <<fluidFlow, tempCondensation>>
    /\ fluidFlow' = flow
    /\ tempCondensation' = cond
    /\ \E seed \in Seeds : Render(seed)
    /\ lastOp' = Op("inputs", 0)
    /\ UNCHANGED <<htmlVars, variant, direction, mounted, stageVars, nodes, frameVars>>

\* one rendered frame: every useFrame callback, in one synchronous pass
Frame(delta) ==
    LET step == StepKey(stepIndex)
        t == elapsed + delta
    IN  /\ mounted
        /\ elapsed' = t
        /\ frame' = frame + 1
        /\ fanAngle' = (IF "Fan" \in nodes
                        THEN fanAngle + FanRate(variant, step, fluidFlow) * delta
                        ELSE fanAngle)
        /\ coilGlow' = (IF "Coil" \in nodes
                        THEN CoilGlow(variant, step, tempCondensation)
                        ELSE coilGlow)
        /\ uvGlow' = (IF "UV" \in nodes
                      THEN UvGlow(variant, step, fluidFlow)
                      ELSE uvGlow)
        /\ dirtyLevel' = (IF "Tanks" \in nodes
                          THEN Smooth(dirtyLevel, DirtyTarget(variant, step), delta)
                          ELSE dirtyLevel)
        /\ cleanLevel' = (IF "Tanks" \in nodes
                          THEN Smooth(cleanLevel, CleanTarget(variant, step), delta)
                          ELSE cleanLevel)
        /\ positions' = [k \in FieldKeys(variant) |->
                            AdvanceField(variant, k, step, fluidFlow, tempCondensation,
                                         t, delta, positions[k])]
        /\ lastOp' = Op("tick", 0)
        /\ UNCHANGED <<htmlVars, variant, direction, mounted, stageVars, nodes, inputVars, phases>>

Tick(delta) == frame < MaxFrames /\ Frame(delta)

Next ==
    \/ Previous
    \/ Next_
    \/ Reset
    \/ \E idx \in StageRange : JumpTo(idx)
    \/ ToggleAutoPlay
    \/ \E id \in 1 .. MaxIntervalIds : TimerFire(id)
    \/ \E in \in InputChoices : SetInputs(in[1], in[2])
    \/ \E delta \in Deltas : Tick(delta)

Spec == Init /\ [][Next]_vars

\* The state setter applied to any index a caller may pass.
JumpInputs == (0 - JumpSlack) .. (StageCount - 1 + JumpSlack)

NextJump ==
    \/ Next
    \/ \E idx \in JumpInputs \ StageRange : JumpTo(idx)

SpecJump == Init /\ [][NextJump]_vars

\* The controls are operated first, then frames are rendered back to back.
NextRun ==
    \/ frame = 0 /\ Previous
    \/ frame = 0 /\ Next_
    \/ frame = 0 /\ Reset
    \/ frame = 0 /\ \E idx \in StageRange : JumpTo(idx)
    \/ frame = 0 /\ ToggleAutoPlay
    \/ frame = 0 /\ \E id \in 1 .. MaxIntervalIds : TimerFire(id)
    \/ frame = 0 /\ \E in \in InputChoices : SetInputs(in[1], in[2])
    \/ \E delta \in Deltas : frame < MaxRunFrames /\ Frame(delta)

SpecRun == Init /\ [][NextRun]_vars

SpecDir == InitDir /\ [][NextRun]_vars

\* Stage requests and timer firings interleaved with frames, the sliders left
\* where they start.
NextMix ==
    \/ Previous
    \/ Next_
    \/ Reset
    \/ \E idx \in StageRange : JumpTo(idx)
    \/ ToggleAutoPlay
    \/ \E id \in 1 .. MaxIntervalIds : TimerFire(id)
    \/ \E delta \in Deltas : frame < MaxMixFrames /\ Frame(delta)

SpecMix == Init /\ [][NextMix]_vars

\* As NextRun, with frames of any delta the callbacks accept.
NextDelta ==
    \/ frame = 0 /\ Previous
    \/ frame = 0 /\ Next_
    \/ frame = 0 /\ Reset
    \/ frame = 0 /\ \E idx \in StageRange : JumpTo(idx)
    \/ frame = 0 /\ ToggleAutoPlay
    \/ frame = 0 /\ \E id \in 1 .. MaxIntervalIds : TimerFire(id)
    \/ frame = 0 /\ \E in \in InputChoices : SetInputs(in[1], in[2])
    \/ \E delta \in Deltas \cup NonPositiveDeltas : frame < MaxRunFrames /\ Frame(delta)

SpecDelta == Init /\ [][NextDelta]_vars

\* As NextRun, with the components handed any numeric props.
NextInputs ==
    \/ frame = 0 /\ Previous
    \/ frame = 0 /\ Next_
    \/ frame = 0 /\ Reset
    \/ frame = 0 /\ \E idx \in StageRange : JumpTo(idx)
    \/ frame = 0 /\ ToggleAutoPlay
    \/ frame = 0 /\ \E id \in 1 .. MaxIntervalIds : TimerFire(id)
    \/ frame = 0 /\ \E in \in InputChoices \cup OutOfRangeInputs : SetInputs(in[1], in[2])
    \/ \E delta \in Deltas : frame < MaxRunFrames /\ Frame(delta)

SpecInputs == Init /\ [][NextInputs]_vars

\* As NextRun, with the sliders moved over their whole range.
NextRange ==
    \/ frame = 0 /\ Previous
    \/ frame = 0 /\ Next_
    \/ frame = 0 /\ Reset
    \/ frame = 0 /\ \E idx \in StageRange : JumpTo(idx)
    \/ frame = 0 /\ ToggleAutoPlay
    \/ frame = 0 /\ \E id \in 1 .. MaxIntervalIds : TimerFire(id)
    \/ frame = 0 /\ \E in \in RangeInputs : SetInputs(in[1], in[2])
    \/ \E delta \in Deltas : frame < MaxRunFrames /\ Frame(delta)

SpecRange == Init /\ [][NextRange]_vars

----------------------------------------------------------------------------
(* The HTML simulator: two tanks filled by coreLogic, which the 200 ms       *)
(* interval, both sliders' input events and reset() run.  rate / 15 and      *)
(* rate / 20 are flow * (26 - temp) / 7500 and / 10000: lvl1 is kept in      *)
(* units of 1/7500 and lvl2 in units of 1/10000, where both are integers.    *)

Tank1Full == 750000      \* Math.min(100, lvl1 + ...)
Tank2Full == 1000000     \* Math.min(100, lvl2 + ...)
Tank1Gate == 150000      \* if (lvl1 > 20)

\* positions of the sliders: flow-ctrl has min 0 max 100, temp-ctrl min 1 max 25
FlowChoices == {0, 50, 100}
TempChoices == {12, 19}

ProductionNone(flow, temp) == 0
\* const rate = Math.max(0, ((flow / 100) * (26 - temp)) / 5), times 500
Production(flow, temp) == Max2(0, flow * (26 - temp))

FillTank1NoCap(level, n) == level + n
FillTank1Overwrites(level, n) == Min2(Tank1Full, n)
\* lvl1 = Math.min(100, lvl1 + (rate / 15))
FillTank1(level, n) == Min2(Tank1Full, level + n)

FillTank2NoGate(first, level, n) == Min2(Tank2Full, level + n)
\* if (lvl1 > 20) lvl2 = Math.min(100, lvl2 + (rate / 20)), lvl1 already updated
FillTank2(first, level, n) ==
    IF first > Tank1Gate THEN Min2(Tank2Full, level + n) ELSE level

\* function coreLogic(), run on the levels l1, l2 with the sliders at flow, temp
coreLogic(l1, l2, flow, temp) ==
    LET n == Production(flow, temp)
    IN  IF n > 0
        THEN /\ lvl1' = FillTank1(l1, n)
             /\ lvl2' = FillTank2(FillTank1(l1, n), l2, n)
        ELSE /\ lvl1' = l1
             /\ lvl2' = l2

\* everything of the React tree
reactVars == <<variant, mounted, stageVars, nodes, inputVars, frameVars, positions,
               phases, direction>>

\* setInterval(coreLogic, 200)
IntervalTick ==
    /\ coreLogic(lvl1, lvl2, flowCtrl, tempCtrl)
    /\ lastOp' = Op("coreLogic", 0)
    /\ UNCHANGED <<flowCtrl, tempCtrl, reactVars>>

\* flowInput.oninput = coreLogic
FlowInput(v) ==
    /\ v # flowCtrl
    /\ flowCtrl' = v
    /\ coreLogic(lvl1, lvl2, v, tempCtrl)
    /\ lastOp' = Op("flow", 0)
    /\ UNCHANGED <<tempCtrl, reactVars>>

\* tempInput.oninput = coreLogic
TempInput(v) ==
    /\ v # tempCtrl
    /\ tempCtrl' = v
    /\ coreLogic(lvl1, lvl2, flowCtrl, v)
    /\ lastOp' = Op("temp", 0)
    /\ UNCHANGED <<flowCtrl, reactVars>>

\* function reset() { lvl1 = 0; lvl2 = 0; coreLogic(); }
reset ==
    /\ coreLogic(0, 0, flowCtrl, tempCtrl)
    /\ lastOp' = Op("reset", 0)
    /\ UNCHANGED <<flowCtrl, tempCtrl, reactVars>>

\* the page after its script has run; the React tree plays no part
InitHtml ==
    /\ Init
    /\ variant = "model"
    /\ positions = GeneratePositions("model", 1)

NextHtml ==
    \/ IntervalTick
    \/ \E v \in FlowChoices : FlowInput(v)
    \/ \E v \in TempChoices : TempInput(v)
    \/ reset

SpecHtml == InitHtml /\ [][NextHtml]_vars

\* the interval keeps firing every 200 ms
SpecHtmlLive == SpecHtml /\ WF_vars(IntervalTick)

----------------------------------------------------------------------------
(* Properties *)

TickStep == lastOp'.op = "tick"

Between(x, a, b) == Min2(a, b) <= x /\ x <= Max2(a, b)

\* C1: after any sequence of Next, Previous, Reset, step-dot jumps, auto-play
\* toggles and timer firings the stage ordinal is an integer with
\* 0 <= stepIndex < stageCount, so STEPS[stepIndex] is defined.
C1_OrdinalValid == stepIndex \in Int /\ 0 <= stepIndex /\ stepIndex < StageCount

\* the timer has just wrapped from the last stage to the first, and the
\* Previous button has just been pressed at the first stage
C1_Witness ==
    \/ lastOp.op = "timer" /\ stepIndex = 0
    \/ lastOp.op = "previous" /\ stepIndex = 0 /\ frame = 1

\* C2: manual navigation never wraps: Next at the last stage and Previous at
\* the first stage leave the ordinal where it is; anywhere else Next adds
\* exactly 1 and Previous subtracts exactly 1.
C2_ManualClamps ==
    [][/\ lastOp'.op = "next" =>
            stepIndex' = (IF stepIndex = StageCount - 1 THEN stepIndex ELSE stepIndex + 1)
       /\ lastOp'.op = "previous" =>
            stepIndex' = (IF stepIndex = 0 THEN stepIndex ELSE stepIndex - 1)]_vars

\* Next has been pressed and the ordinal is the last stage
C2_Witness == lastOp.op = "next" /\ stepIndex = StageCount - 1

\* C3: every timer firing sets the ordinal to (ordinal + 1) mod stageCount: 0
\* after the last stage, ordinal + 1 after any other.
C3_TimerWraps ==
    [][lastOp'.op = "timer" =>
          stepIndex' = (IF stepIndex = StageCount - 1 THEN 0 ELSE stepIndex + 1)]_vars

\* the timer fired at the last stage
C3_Witness == lastOp.op = "timer" /\ stepIndex = 0 /\ autoPlay

\* C4: once auto-advance is disabled no timer-driven transition occurs until
\* it is enabled again: a timer fires only from a state in which auto-play is
\* on, and no interval outlives the disabling.
C4_NoFiringWhileDisabled ==
    [][/\ lastOp'.op = "timer" => autoPlay
       /\ ~autoPlay' => intervals' = {}]_vars

\* auto-play has just been switched off while its interval was pending
C4_Witness == lastOp.op = "toggle" /\ ~autoPlay /\ intervals = {}

C6_WrapBound ==
    \A k \in DOMAIN positions : \A i \in DOMAIN positions[k] : \A c \in 1 .. 3 :
        /\ positions[k][i][c] <= Box(variant, k)[c] \div 2
        /\ positions[k][i][c] >= 0 - (Box(variant, k)[c] \div 2)

\* C7: a tick leaves every particle position of every inactive field
\* unchanged, however many ticks run.
C7_InactiveFrozen ==
    [][TickStep =>
          \A k \in DOMAIN positions :
              k # STEPS[stepIndex + 1] => positions'[k] = positions[k]]_vars

\* the second or a later frame in a row has been rendered while the air field
\* was inactive
C7_Witness ==
    lastOp.op = "tick" /\ frame >= 2 /\ stepIndex # 0 /\ "air" \in DOMAIN positions

\* C8: particle positions are assigned once and never regenerated: stage
\* changes, control changes and re-renders leave every position as it was, so
\* only a tick changes a position.
C8_NeverRegenerated ==
    [][~TickStep => positions' = positions]_vars

\* C9: there is exactly one particle field per stage, a field is active iff
\* its owning stage is the current stage, and so exactly one field is active.
C9_OneFieldPerStage ==
    /\ DOMAIN positions = {STEPS[n] : n \in 1 .. StageCount}
    /\ Cardinality({k \in DOMAIN positions : Active(k, STEPS[stepIndex + 1])}) = 1
    /\ \A k \in DOMAIN positions : Active(k, STEPS[stepIndex + 1]) <=> k = STEPS[stepIndex + 1]

\* C10: one fluid-level smoothing step with frameDelta > 0 ends inside
\* [min(current, target), max(current, target)], so the distance to the target
\* does not increase.
C10_NoOvershoot ==
    [][TickStep /\ "Tanks" \in nodes =>
          LET dirty == DirtyTarget(variant, STEPS[stepIndex + 1])
              clean == CleanTarget(variant, STEPS[stepIndex + 1])
          IN  /\ Between(dirtyLevel', dirtyLevel, dirty)
              /\ Between(cleanLevel', cleanLevel, clean)
              /\ Abs(dirty - dirtyLevel') <= Abs(dirty - dirtyLevel)
              /\ Abs(clean - cleanLevel') <= Abs(clean - cleanLevel)]_vars

\* a frame has moved the pre-filter level part of the way to its target
C10_Witness ==
    /\ lastOp.op = "tick"
    /\ "Tanks" \in nodes
    /\ dirtyLevel # InitialDirtyLevel(variant)
    /\ dirtyLevel # DirtyTarget(variant, STEPS[stepIndex + 1])

\* the frame delta of a tick step, ms
TickDelta == elapsed' - elapsed

LevelTargets(v) ==
    {DirtyTarget(v, STEPS[n]) : n \in 1 .. StageCount}
        \cup {CleanTarget(v, STEPS[n]) : n \in 1 .. StageCount}

\* step sizes dt/2 whose double dt is a step size too, ms
HalfDeltas == {8, 250, 500}

\* the distance between one step of size 2h and two steps of size h
StepSplitGap(level, target, h) ==
    Abs(Smooth(level, target, 2 * h) - Smooth(Smooth(level, target, h), target, h))

\* C13 (amended): for a fixed target and a step size dt > 0, advancing a fluid
\* level by one step of size dt and by two consecutive steps of size dt/2
\* yield the same value within rounding tolerance (two millionths).
C13_FrameRateIndependent ==
    "Tanks" \in nodes =>
        \A level \in {dirtyLevel, cleanLevel} : \A target \in LevelTargets(variant) :
            \A h \in HalfDeltas : StepSplitGap(level, target, h) <= 2

\* C13 as stated: one step of size dt and two steps of size dt/2 yield exactly
\* the same value.
C13_SplitExact ==
    "Tanks" \in nodes =>
        \A level \in {dirtyLevel, cleanLevel} : \A target \in LevelTargets(variant) :
            \A h \in HalfDeltas : StepSplitGap(level, target, h) = 0

\* two ticks in a row have moved a level part of the way to its target
C13_Witness ==
    /\ lastOp.op = "tick"
    /\ "Tanks" \in nodes
    /\ frame >= 2
    /\ \/ dirtyLevel \notin LevelTargets(variant) \cup {InitialDirtyLevel(variant)}
       \/ cleanLevel \notin LevelTargets(variant) \cup {InitialCleanLevel(variant)}

\* the operations that hand setStepIndex a stage
StageOps == {"previous", "next", "reset", "jump", "timer"}

\* x lies strictly between a and b
StrictlyBetween(x, a, b) == Min2(a, b) < x /\ x < Max2(a, b)

C15_TickSeesOneStage ==
    [][TickStep =>
          \E n \in {stepIndex + 1, stepIndex' + 1} :
              LET s == STEPS[n]
              IN  /\ "Fan" \in nodes =>
                         fanAngle' - fanAngle = FanRate(variant, s, fluidFlow) * TickDelta
                  /\ "Coil" \in nodes => coilGlow' = CoilGlow(variant, s, tempCondensation)
                  /\ "UV" \in nodes => uvGlow' = UvGlow(variant, s, fluidFlow)
                  /\ "Tanks" \in nodes =>
                         /\ dirtyLevel' = Smooth(dirtyLevel, DirtyTarget(variant, s), TickDelta)
                         /\ cleanLevel' = Smooth(cleanLevel, CleanTarget(variant, s), TickDelta)
                  /\ \A k \in DOMAIN positions :
                         positions'[k] # positions[k] => k = s]_vars

\* two ticks have run at two different stages with auto-advance on: one moved
\* the pre-filter level, the other the clean level
C15_Witness ==
    /\ lastOp.op = "tick"
    /\ "Tanks" \in nodes
    /\ autoPlay
    /\ dirtyLevel # InitialDirtyLevel(variant)
    /\ cleanLevel # InitialCleanLevel(variant)

\* the squared length of a vector in thousandths, millionths
SquaredLength(u) == u[1] * u[1] + u[2] * u[2] + u[3] * u[3]

\* C16: a field configured with a zero-length direction uses the default unit
\* vector (1,0,0); for every configuration the direction the ticks use has
\* length 1 (to the precision of its thousandths), and every position a tick
\* produces is a defined number.
C16_DirectionNormalized ==
    \A k \in DOMAIN direction :
        LET u == Normalize(direction[k])
        IN  /\ direction[k] = <<0, 0, 0>> => u = <<1000, 0, 0>>
            /\ Abs(SquaredLength(u) - 1000000) <= 3000
            /\ \A i \in DOMAIN positions[k] : \A c \in 1 .. 3 : positions[k][i][c] \in Int

\* a tick has advected the active air field, configured with the zero vector
C16_Witness ==
    /\ lastOp.op = "tick"
    /\ stepIndex = 0
    /\ direction["air"] = <<0, 0, 0>>
    /\ \A seed \in Seeds :
          positions["air"][1][1] # GeneratePositions(variant, seed)["air"][1][1]

\* C17: with 6 stages, flow 0.62, condensation 0.58 and stage air, one tick
\* of 0.016 s turns the fan at 1.0 x (1.2 + 6.2) = 7.4 rad/s, sets the
\* condenser glow to the idle 0.08, advances the air field and leaves the
\* other five fields alone.
C17_AirScenario ==
    [][/\ TickStep
       /\ variant = "model"
       /\ stepIndex = 0
       /\ fluidFlow = 62
       /\ tempCondensation = 58
       /\ TickDelta = 16
       => /\ StageCount = 6
          /\ fanAngle' - fanAngle = 74000 * 16
          /\ coilGlow' = 800
          /\ positions'["air"] # positions["air"]
          /\ Cardinality(DOMAIN positions \ {"air"}) = 5
          /\ \A k \in DOMAIN positions \ {"air"} : positions'[k] = positions[k]]_vars

\* the scenario's tick has run
C17_Witness ==
    /\ lastOp.op = "tick"
    /\ variant = "model"
    /\ stepIndex = 0
    /\ fluidFlow = 62
    /\ tempCondensation = 58
    /\ elapsed = 16
    /\ fanAngle = 74000 * 16
    /\ coilGlow = 800

\* C18: toggling auto-advance, on or off, leaves the stage ordinal as it was.
C18_ToggleKeepsOrdinal ==
    [][lastOp'.op = "toggle" => stepIndex' = stepIndex]_vars

\* auto-advance has just been switched off at stage 3, or on at stage 4
C18_Witness ==
    \/ lastOp.op = "toggle" /\ ~autoPlay /\ stepIndex = 3
    \/ lastOp.op = "toggle" /\ autoPlay /\ stepIndex = 4

\* the displacement of the particles of field k in a tick step
TickDisplacement(k) ==
    Displacement(Speed(variant, k, fluidFlow, tempCondensation), TickDelta)

\* C19: for every field with swirl > 0 the swirl is lateral: the coordinate
\* along the field's base direction changes in a tick, before wrap, by exactly
\* direction x speed x frameDelta.
C19_SwirlLateral ==
    [][TickStep =>
          \A k \in DOMAIN positions :
              k = STEPS[stepIndex + 1] /\ Swirl(variant, k) > 0 =>
                  \A i \in DOMAIN positions[k] : \A c \in 1 .. 3 :
                      LET u == Normalize(direction[k])[c]
                      IN  u # 0 =>
                            positions'[k][i][c] =
                                Wrap(F32(positions[k][i][c] + Along(TickDisplacement(k), u)),
                                     Box(variant, k)[c] \div 2)]_vars

\* C20: wrap is applied per axis after advection and swirl: a coordinate above
\* +half ends the tick at -half, one below -half ends it at +half (each as the
\* array stores it), and one within bounds is left as advection and swirl
\* computed it.
C20_WrapPerAxis ==
    [][TickStep =>
          \A k \in DOMAIN positions :
              k = STEPS[stepIndex + 1] =>
                  \A i \in DOMAIN positions[k] :
                      LET q == Advected(positions[k][i], phases[k][i],
                                        Normalize(direction[k]),
                                        Speed(variant, k, fluidFlow, tempCondensation),
                                        Swirl(variant, k), elapsed', TickDelta)
                      IN  \A c \in 1 .. 3 :
                            LET half == Box(variant, k)[c] \div 2
                            IN  positions'[k][i][c] =
                                    (IF q[c] > half THEN F32(0 - half)
                                     ELSE IF q[c] < 0 - half THEN F32(half)
                                     ELSE q[c])]_vars


\* C21: for every stage and every flow in [0,1] the fan's angular rate is
\* (base + flow x 10) scaled by 1.0 in the air stage and by an idle fraction
\* within [0.15, 0.25] in every other stage, so the fan angle strictly
\* increases on every tick with frameDelta > 0.
C21_FanNeverStops ==
    [][TickStep /\ "Fan" \in nodes /\ TickDelta > 0 /\ fluidFlow \in 0 .. 100 =>
          /\ fanAngle' > fanAngle
          /\ \E base \in {120, 150} :
                \E mult \in (IF stepIndex = 0 THEN {100} ELSE 15 .. 25) :
                    fanAngle' - fanAngle = (base + fluidFlow * 10) * mult * TickDelta]_vars

\* a tick has turned the fan outside the air stage with the flow slider at 0
C21_Witness ==
    /\ lastOp.op = "tick"
    /\ "Fan" \in nodes
    /\ fluidFlow = 0
    /\ stepIndex # 0
    /\ fanAngle > 0

\* the stages other than s
OtherStages(s) == {STEPS[n] : n \in 1 .. StageCount} \ {s}

\* C22: for inputs in [0,1] each stage-driven output is, in its active stage,
\* strictly greater than in any other stage and non-decreasing in its input
\* (condensation for the condenser, flow for UV and fan); an active field's
\* speed is positive and non-decreasing in the inputs.
C22_IdleActiveShape ==
    [][TickStep /\ fluidFlow \in 0 .. 100 /\ tempCondensation \in 0 .. 100 =>
          LET step == STEPS[stepIndex + 1]
              turned == fanAngle' - fanAngle
          IN  /\ "Coil" \in nodes /\ step = "condensation" =>
                     /\ \A s \in OtherStages(step) :
                            coilGlow' > CoilGlow(variant, s, tempCondensation)
                     /\ \A lower \in 0 .. tempCondensation :
                            CoilGlow(variant, step, lower) <= coilGlow'
              /\ "UV" \in nodes /\ step = "uv_tank" =>
                     /\ \A s \in OtherStages(step) : uvGlow' > UvGlow(variant, s, fluidFlow)
                     /\ \A lower \in 0 .. fluidFlow : UvGlow(variant, step, lower) <= uvGlow'
              /\ "Fan" \in nodes /\ step = "air" =>
                     /\ \A s \in OtherStages(step) :
                            turned > FanRate(variant, s, fluidFlow) * TickDelta
                     /\ \A lower \in 0 .. fluidFlow :
                            FanRate(variant, step, lower) * TickDelta <= turned
              /\ step \in DOMAIN positions =>
                     /\ TickDisplacement(step) > 0
                     /\ \A f \in 0 .. fluidFlow : \A c \in 0 .. tempCondensation :
                            Speed(variant, step, f, c)
                                <= Speed(variant, step, fluidFlow, tempCondensation)]_vars

\* a tick at the condensation stage with the condensation slider at its top
C22_Witness ==
    /\ lastOp.op = "tick"
    /\ stepIndex = 1
    /\ "Coil" \in nodes
    /\ tempCondensation = 100
    /\ coilGlow > 800

\* C23: the phase offsets are assigned once: no tick, stage change, control
\* change or re-render changes any phase value.
C23_PhasesImmutable == [][phases' = phases]_vars

\* a slider has been moved, re-rendering the fields, after a tick
C23_Witness == lastOp.op = "inputs" /\ frame = 1

\* C24: at any time at most one auto-advance interval exists, and one exists
\* iff auto-play is enabled.
C24_OneInterval ==
    mounted => Cardinality(intervals) <= 1 /\ (intervals # {} <=> autoPlay)

\* auto-play, on at the start, has been switched off and on again
C24_Witness ==
    /\ lastOp.op = "toggle"
    /\ variant = "model"
    /\ autoPlay
    /\ Cardinality(intervals) = 1

\* Previous, Next, Reset and the step dots
ManualOps == {"previous", "next", "reset", "jump"}

\* C25: manual navigation neither stops nor restarts the timer, and the
\* firing that follows a manual move to ordinal j yields (j + 1) mod
\* stageCount.
C25_TimerUsesCurrentOrdinal ==
    [][/\ lastOp'.op \in ManualOps =>
            intervals' = intervals /\ effectId' = effectId /\ autoPlay' = autoPlay
       /\ lastOp.op \in ManualOps /\ lastOp'.op = "timer" =>
            stepIndex' = (stepIndex + 1) % StageCount]_vars

\* a manual move away from the initial stage with the timer pending
C25_Witness ==
    /\ lastOp.op \in ManualOps
    /\ autoPlay
    /\ intervals # {}
    /\ stepIndex # InitialStepIndex(variant)


\* C26: in the HTML simulator, after any sequence of coreLogic invocations
\* (timer or slider events) and resets, with the sliders in range, both tank
\* levels lie within 0 and 100.
C26_LevelsInRange ==
    /\ 0 <= lvl1 /\ lvl1 <= Tank1Full
    /\ 0 <= lvl2 /\ lvl2 <= Tank2Full

\* the timer has filled the first tank to the brim
C26_Witness == lastOp.op = "coreLogic" /\ lvl1 = Tank1Full /\ lvl2 > 0

\* C27: the second tank fills only behind the first: in every reachable state
\* lvl2 > 0 implies lvl1 > 20.
C27_SecondBehindFirst == lvl2 > 0 => lvl1 > Tank1Gate

\* the first tank has passed 20 and the second has started to fill
C27_Witness == lvl2 > 0 /\ lvl1 > Tank1Gate /\ lvl1 < Tank1Full

\* the operations that run coreLogic on the levels as they are
CoreOps == {"coreLogic", "flow", "temp"}

\* over the whole range of both sliders an invocation adds nothing negative,
\* and adds something whenever the flow slider is above 0
FillingNonNegative == \A flow \in 0 .. 100 : \A temp \in 1 .. 25 : Production(flow, temp) >= 0
FillingPositive == \A flow \in 1 .. 100 : \A temp \in 1 .. 25 : Production(flow, temp) > 0

\* C28 (amended): no coreLogic invocation, by timer or slider, lowers a tank
\* level; only reset does, which sets both levels to 0 and runs coreLogic
\* once, leaving lvl2 at 0 and lvl1 at one invocation's filling.
C28_LevelsNeverDecrease ==
    [][/\ FillingNonNegative
       /\ lastOp'.op \in CoreOps => lvl1' >= lvl1 /\ lvl2' >= lvl2
       /\ lastOp'.op = "reset" =>
            /\ lvl2' = 0
            /\ lvl1' = (IF flowCtrl * (26 - tempCtrl) > 0
                        THEN FillTank1(0, flowCtrl * (26 - tempCtrl)) ELSE 0)]_vars

\* C28 as stated: coreLogic never lowers a level and reset leaves both levels
\* at 0.
C28_ResetLeavesZero ==
    [][/\ lastOp'.op \in CoreOps => lvl1' >= lvl1 /\ lvl2' >= lvl2
       /\ lastOp'.op = "reset" => lvl1' = 0 /\ lvl2' = 0]_vars

\* reset has just run with the flow slider up: the second tank is empty and
\* the first holds one invocation's filling
C28_Witness == lastOp.op = "reset" /\ flowCtrl > 0 /\ lvl2 = 0 /\ lvl1 > 0

\* C29: if the flow slider stays above 0 and reset is no longer called, the
\* timer brings lvl1 to 100 and then lvl2 to 100, where both stay; while the
\* flow slider stays at 0 no invocation changes a level.
C29_FillsToFull ==
    /\ [](FillingPositive)
    /\ <>[](flowCtrl > 0 /\ lastOp.op # "reset")
            => <>[](lvl1 = Tank1Full /\ lvl2 = Tank2Full)
    /\ [](lvl2 = Tank2Full => lvl1 = Tank1Full)
    /\ [][flowCtrl = 0 /\ flowCtrl' = 0 /\ lastOp'.op # "reset" =>
              lvl1' = lvl1 /\ lvl2' = lvl2]_vars

\* the timer has filled both tanks
C29_Witness ==
    lastOp.op = "coreLogic" /\ flowCtrl > 0 /\ lvl1 = Tank1Full /\ lvl2 = Tank2Full

====
